---- MODULE Spec2Model ----
(***************************************************************************)
(* Model of utils/byte_range.py (class ByteRange): a tree of nested byte   *)
(* ranges.  Objects live in a heap: heap[i] is a ByteRange object,         *)
(* lists[j] a Python list object.  A node holds a reference to its parent  *)
(* object and a reference to its subranges list, so that what              *)
(* insert_subrange does at lines 85-86 is visible: a regrouped child is a  *)
(* new object that takes over the list of the old one, and the children in *)
(* that list keep their reference to the old object.                       *)
(*                                                                         *)
(* The operations are pure operators on a store [heap, lists] and return   *)
(* the new store with the error raised, if any.  The actions apply them to *)
(* the nodes of the tree; properties of an operation are stated over every *)
(* reachable store and every argument.  Python 2 semantics (line 42 is     *)
(* integer division).                                                      *)
(***************************************************************************)
EXTENDS Integers, Sequences, FiniteSets, TLC

VARIABLES heap, lists, last, spans, perm, scan

vars == <<heap, lists, last, spans, perm, scan>>

\* ---- bounds of the model ----
RootLen == 3
MaxNodes == 4
MaxSpans == 4

\* ---- encoding of Python values ----
None == 0
Root == 1
Data == {1}
Offsets == -1 .. RootLen
Lengths == -1 .. (RootLen + 1)

\* the callback handed to scan_gap: an injective function of the gap
callback(gapStart, gapStop) == 100 + 10 * gapStart + gapStop

\* ---- the Range collaborator (range.py) ----
Range(start, stop) == [start |-> start, stop |-> stop]

Range_len(r) == r.stop - r.start

\* a < b: a lies entirely before b
Range_lt(a, b) == a.stop <= b.start

\* a > b: a lies entirely after b
Range_gt(a, b) == a.start >= b.stop

\* a in b: a is fully contained in b
Range_contains(b, a) == b.start <= a.start /\ a.stop <= b.stop

\* (a variant of the constructor that does not keep the parent)
ByteRange_orphan(offset, length, data, parent, listId) ==
    [start |-> offset, stop |-> length, parent |-> None, data |-> data,
     subranges |-> listId]

\* ---- ByteRange.__init__ ----
\* the second argument, named length in the source, is handed to Range as
\* its stop; listId is the fresh list that line 11 allocates
ByteRange(offset, length, data, parent, listId) ==
    [start |-> offset, stop |-> length, parent |-> parent, data |-> data,
     subranges |-> listId]

\* self.subranges: the contents of the list a node refers to
subranges(s, n) == s.lists[s.heap[n].subranges]

\* (a variant that overwrites the element at i instead of shifting it)
ListInsert_replace(list, i, x) ==
    IF i > Len(list) THEN Append(list, x)
    ELSE [list EXCEPT ![i] = x]

\* list.insert(i, x) with the 1-based position i of the new element
ListInsert(list, i, x) ==
    SubSeq(list, 1, i - 1) \o <<x>> \o SubSeq(list, i, Len(list))

\* list.remove(x)
RECURSIVE ListRemove(_, _)
ListRemove(list, x) ==
    IF list = <<>> THEN <<>>
    ELSE IF Head(list) = x THEN Tail(list)
    ELSE <<Head(list)>> \o ListRemove(Tail(list), x)

\* ---- add_subrange ----
\* line 28: the bounds test
BoundsError(self, offset, length) ==
    offset < 0 \/ length < 0 \/ (offset + length > self.stop)

\* lines 41-49: the binary search; hit is the equal-start probe
RECURSIVE Search(_, _, _, _, _)
Search(s, sr, newStart, left_idx, right_idx) ==
    IF right_idx - left_idx > 1
    THEN LET mid_idx == (left_idx + right_idx) \div 2
             mid == s.heap[sr[mid_idx]].start
         IN  IF mid < newStart THEN Search(s, sr, newStart, mid_idx, right_idx)
             ELSE IF mid > newStart THEN Search(s, sr, newStart, left_idx, mid_idx)
             ELSE [hit |-> TRUE, left_idx |-> left_idx, right_idx |-> right_idx]
    ELSE [hit |-> FALSE, left_idx |-> left_idx, right_idx |-> right_idx]

\* (a variant that looks at the left neighbour only)
Between_left(left, new, right) == Range_lt(left, new)

\* line 50: the new range lies between its two neighbours
Between(left, new, right) == Range_lt(left, new) /\ Range_lt(new, right)

\* lines 32-53: where the new range goes; idx = 0 is the overlap error
Place(s, sr, new) ==
    IF Len(sr) = 0 \/ Range_gt(new, s.heap[sr[Len(sr)]])
    THEN [idx |-> Len(sr) + 1, branch |-> "append"]
    ELSE IF Range_lt(new, s.heap[sr[1]])
    THEN [idx |-> 1, branch |-> "prepend"]
    ELSE LET f == Search(s, sr, new.start, 1, Len(sr))
         IN  IF f.hit THEN [idx |-> 0, branch |-> "probe"]
             ELSE IF Between(s.heap[sr[f.left_idx]], new, s.heap[sr[f.right_idx]])
             THEN [idx |-> f.right_idx, branch |-> "between"]
             ELSE [idx |-> 0, branch |-> "neighbour"]

add_subrange(s, n, offset, length, data) ==
    LET self == s.heap[n]
        id == Len(s.heap) + 1
        new_subrange == ByteRange(offset, offset + length, data, n, Len(s.lists) + 1)
        p == Place(s, subranges(s, n), new_subrange)
    IN  IF BoundsError(self, offset, length)
        THEN [s |-> s, err |-> "bounds", ret |-> None, branch |-> "none"]
        ELSE IF p.idx = 0
        THEN [s |-> s, err |-> "overlap", ret |-> None, branch |-> p.branch]
        ELSE [s |-> [heap |-> Append(s.heap, new_subrange),
                     lists |-> [Append(s.lists, <<>>) EXCEPT ![self.subranges] =
                                   ListInsert(subranges(s, n), p.idx, id)]],
              err |-> "none", ret |-> id, branch |-> p.branch]

\* ---- traversal ----
\* iterate: the callback invocations (node, absoluteStart, absoluteStop,
\* level) in the order they are made
RECURSIVE iterate(_, _, _, _)
RECURSIVE iterate_children(_, _, _, _, _)
RECURSIVE iterate_children_level(_, _, _, _, _)
iterate(s, n, start, level) ==
    <<[node |-> n, start |-> start,
       stop |-> start + Range_len(s.heap[n]), level |-> level]>>
    \o iterate_children(s, subranges(s, n), 1, start, level)

\* (a variant that hands the children the level of their parent)
iterate_children_level(s, sr, i, start, level) ==
    IF i > Len(sr) THEN <<>>
    ELSE iterate(s, sr[i], start + s.heap[sr[i]].start, level)
         \o iterate_children_level(s, sr, i + 1, start, level)

iterate_children(s, sr, i, start, level) ==
    IF i > Len(sr) THEN <<>>
    ELSE iterate(s, sr[i], start + s.heap[sr[i]].start, level + 1)
         \o iterate_children(s, sr, i + 1, start, level)

\* iterate_leaves: the callback invocations, made at childless nodes only
RECURSIVE iterate_leaves(_, _, _, _)
RECURSIVE iterate_leaves_children(_, _, _, _, _)
iterate_leaves(s, n, start, level) ==
    IF Len(subranges(s, n)) = 0
    THEN <<[node |-> n, start |-> start,
            stop |-> start + Range_len(s.heap[n]), level |-> level]>>
    ELSE iterate_leaves_children(s, subranges(s, n), 1, start, level)

iterate_leaves_children(s, sr, i, start, level) ==
    IF i > Len(sr) THEN <<>>
    ELSE iterate_leaves(s, sr[i], start + s.heap[sr[i]].start, level + 1)
         \o iterate_leaves_children(s, sr, i + 1, start, level)

\* the callback handed to iterate and iterate_leaves in this model: it
\* answers None for a node of length zero and a number made of the level
\* and the absolute span otherwise
visit(s, n, start, stop, level) ==
    IF start = stop THEN None ELSE 1000 + 100 * level + 10 * start + stop

\* iterate_results: the list iterate returns (lines 158-163)
RECURSIVE iterate_results(_, _, _, _)
RECURSIVE iterate_results_children(_, _, _, _, _)
iterate_results(s, n, start, level) ==
    LET this_result == visit(s, n, start, start + Range_len(s.heap[n]), level)
    IN  (IF this_result # None THEN <<this_result>> ELSE <<>>)
        \o iterate_results_children(s, subranges(s, n), 1, start, level)

iterate_results_children(s, sr, i, start, level) ==
    IF i > Len(sr) THEN <<>>
    ELSE iterate_results(s, sr[i], start + s.heap[sr[i]].start, level + 1)
         \o iterate_results_children(s, sr, i + 1, start, level)

\* iterate_leaves_results: the list iterate_leaves returns (lines 148-154)
RECURSIVE iterate_leaves_results(_, _, _, _)
RECURSIVE iterate_leaves_results_children(_, _, _, _, _)
iterate_leaves_results(s, n, start, level) ==
    IF Len(subranges(s, n)) = 0
    THEN <<visit(s, n, start, start + Range_len(s.heap[n]), level)>>
    ELSE iterate_leaves_results_children(s, subranges(s, n), 1, start, level)

iterate_leaves_results_children(s, sr, i, start, level) ==
    IF i > Len(sr) THEN <<>>
    ELSE iterate_leaves_results(s, sr[i], start + s.heap[sr[i]].start, level + 1)
         \o iterate_leaves_results_children(s, sr, i + 1, start, level)

\* the nodes of the tree: what iterate on the root visits
Nodes(s) == LET v == iterate(s, Root, 0, 0) IN {v[i].node : i \in 1 .. Len(v)}

\* (a variant of the scan that passes over a child that is not inside the
\* new range instead of raising)
RECURSIVE Collect_lenient(_, _, _, _, _)
Collect_lenient(s, sr, tmp_range, i, subsubranges) ==
    IF i > Len(sr) THEN [spans |-> FALSE, subsubranges |-> subsubranges]
    ELSE LET x == s.heap[sr[i]]
         IN  IF Range_lt(x, tmp_range)
             THEN Collect_lenient(s, sr, tmp_range, i + 1, subsubranges)
             ELSE IF Range_gt(x, tmp_range)
             THEN [spans |-> FALSE, subsubranges |-> subsubranges]
             ELSE IF Range_contains(tmp_range, x)
             THEN Collect_lenient(s, sr, tmp_range, i + 1, Append(subsubranges, sr[i]))
             ELSE Collect_lenient(s, sr, tmp_range, i + 1, subsubranges)

\* ---- insert_subrange ----
\* lines 66-74: the scan for ranges that belong to the new one; spans is
\* the "spans boundary" error
RECURSIVE Collect(_, _, _, _, _)
Collect(s, sr, tmp_range, i, subsubranges) ==
    IF i > Len(sr) THEN [spans |-> FALSE, subsubranges |-> subsubranges]
    ELSE LET x == s.heap[sr[i]]
         IN  IF Range_lt(x, tmp_range)
             THEN Collect(s, sr, tmp_range, i + 1, subsubranges)
             ELSE IF Range_gt(x, tmp_range)
             THEN [spans |-> FALSE, subsubranges |-> subsubranges]
             ELSE IF Range_contains(tmp_range, x)
             THEN Collect(s, sr, tmp_range, i + 1, Append(subsubranges, sr[i]))
             ELSE [spans |-> TRUE, subsubranges |-> subsubranges]

\* lines 77-78: remove the collected ranges from self.subranges
RECURSIVE RemoveAll(_, _, _)
RemoveAll(s, n, subsubranges) ==
    IF subsubranges = <<>> THEN s
    ELSE RemoveAll([s EXCEPT !.lists[s.heap[n].subranges] =
                        ListRemove(subranges(s, n), Head(subsubranges))],
                   n, Tail(subsubranges))

\* (a variant that keeps the offset a removed range had in the old parent)
Translate_none(start, offset) == start

\* line 85: the offset of a removed range inside the new range
Translate(start, offset) == start - offset

\* lines 84-86: put the removed ranges back under new_sr; a fresh node is
\* made for each and takes over the old node's list object
RECURSIVE Relink(_, _, _, _)
Relink(s, new_sr, offset, subsubranges) ==
    IF subsubranges = <<>> THEN [s |-> s, err |-> "none"]
    ELSE LET ssr == s.heap[Head(subsubranges)]
             r == add_subrange(s, new_sr, Translate(ssr.start, offset),
                               Range_len(ssr), ssr.data)
         IN  IF r.err # "none" THEN [s |-> r.s, err |-> r.err]
             ELSE Relink([r.s EXCEPT !.heap[r.ret].subranges = ssr.subranges],
                         new_sr, offset, Tail(subsubranges))

insert_subrange(s, n, offset, length, data) ==
    LET c == Collect(s, subranges(s, n), Range(offset, offset + length), 1, <<>>)
        s1 == RemoveAll(s, n, c.subsubranges)
        r == add_subrange(s1, n, offset, length, data)
        k == Relink(r.s, r.ret, offset, c.subsubranges)
    IN  IF c.spans
        THEN [s |-> s, err |-> "spans", ret |-> None, moved |-> <<>>]
        ELSE IF r.err # "none"
        THEN [s |-> r.s, err |-> r.err, ret |-> None, moved |-> c.subsubranges]
        ELSE [s |-> k.s, err |-> k.err, ret |-> r.ret, moved |-> c.subsubranges]

\* ---- absolute offsets ----
\* (a variant that stops after the first parent)
Walk_once(s, start, parent) ==
    IF parent # None THEN start + s.heap[parent].start ELSE start

\* lines 93-95: the walk up the parent references
RECURSIVE Walk(_, _, _)
Walk(s, start, parent) ==
    IF parent # None
    THEN Walk(s, start + s.heap[parent].start, s.heap[parent].parent)
    ELSE start

abs_start(s, n) == Walk(s, s.heap[n].start, s.heap[n].parent)

abs_end(s, n) == abs_start(s, n) + Range_len(s.heap[n])

\* ---- does_partition ----
\* (a variant that compares with stop instead of the length)
ReachesEnd_stop(self, cur) == cur = self.stop

\* line 123: the last subrange goes all the way to the end
ReachesEnd(self, cur) == cur = Range_len(self)

RECURSIVE does_partition(_, _)
RECURSIVE PartitionLoop(_, _, _, _)
does_partition(s, n) ==
    IF Len(subranges(s, n)) = 0 THEN TRUE
    ELSE PartitionLoop(s, n, 1, 0)

\* lines 117-123
PartitionLoop(s, n, i, cur) ==
    LET sr == subranges(s, n)
    IN  IF i > Len(sr) THEN ReachesEnd(s.heap[n], cur)
        ELSE IF cur # s.heap[sr[i]].start THEN FALSE
        ELSE IF ~does_partition(s, sr[i]) THEN FALSE
        ELSE PartitionLoop(s, n, i + 1, s.heap[sr[i]].stop)

\* ---- scan_gap ----
\* lines 169-175: the loop runs over the live list, by position
RECURSIVE GapLoop(_, _, _, _, _)
GapLoop(s, n, i, current, calls) ==
    LET list == subranges(s, n)
    IN  IF i > Len(list) THEN [s |-> s, err |-> "none", current |-> current, calls |-> calls]
        ELSE LET sr == s.heap[list[i]]
                 gap == sr.start - current
                 r == add_subrange(s, n, current, gap, callback(current, current + gap))
             IN  IF gap > 0
                 THEN IF r.err # "none"
                      THEN [s |-> r.s, err |-> r.err, current |-> current,
                            calls |-> Append(calls, <<current, current + gap>>)]
                      ELSE GapLoop(r.s, n, i + 1, sr.stop,
                                   Append(calls, <<current, current + gap>>))
                 ELSE GapLoop(s, n, i + 1, sr.stop, calls)

scan_gap(s, n) ==
    IF Len(subranges(s, n)) > 0
    THEN LET g == GapLoop(s, n, 1, 0, <<>>)
             self == g.s.heap[n]
             current == g.current
             gap == self.stop - (self.start + current)
             r == add_subrange(g.s, n, current, gap, callback(current, current + gap))
         IN  IF g.err # "none" THEN [s |-> g.s, err |-> g.err, calls |-> g.calls]
             ELSE IF gap > 0
             THEN [s |-> r.s, err |-> r.err,
                   calls |-> Append(g.calls, <<current, current + gap>>)]
             ELSE [s |-> g.s, err |-> "none", calls |-> g.calls]
    ELSE [s |-> s, err |-> "none", calls |-> <<>>]

\* ---- object identity ----
\* Addresses of objects are not observable.  A state keeps the objects that
\* the tree can still reach (through subranges from the root, and from
\* there through parent references) and numbers them in the order iterate
\* meets them; what nothing refers to any more is collected.
RECURSIVE Chain(_, _)
Chain(s, n) == IF n = None THEN <<>> ELSE <<n>> \o Chain(s, s.heap[n].parent)

RECURSIVE Chains(_, _, _)
Chains(s, tree, i) ==
    IF i > Len(tree) THEN <<>>
    ELSE Chain(s, s.heap[tree[i]].parent) \o Chains(s, tree, i + 1)

RECURSIVE Dedup(_, _)
Dedup(seq, seen) ==
    IF seq = <<>> THEN <<>>
    ELSE IF Head(seq) \in seen THEN Dedup(Tail(seq), seen)
    ELSE <<Head(seq)>> \o Dedup(Tail(seq), seen \cup {Head(seq)})

IndexOf(seq, x) == CHOOSE i \in 1 .. Len(seq) : seq[i] = x

Live(s) ==
    LET v == iterate(s, Root, 0, 0)
        tree == [i \in 1 .. Len(v) |-> v[i].node]
    IN  Dedup(tree \o Chains(s, tree, 1), {})

Canon(s) ==
    LET ord == Live(s)
        lord == Dedup([i \in 1 .. Len(ord) |-> s.heap[ord[i]].subranges], {})
        rn(x) == IF x = None THEN None ELSE IndexOf(ord, x)
    IN  [heap |-> [i \in 1 .. Len(ord) |->
                      [s.heap[ord[i]] EXCEPT !.parent = rn(@),
                                             !.subranges = IndexOf(lord, @)]],
         lists |-> [j \in 1 .. Len(lord) |->
                      [k \in 1 .. Len(s.lists[lord[j]]) |-> rn(s.lists[lord[j]][k])]]]

\* ---- the state machine ----
st == [heap |-> heap, lists |-> lists]

\* scan: where a scan_gap that is taken one loop iteration at a time has
\* got to; Idle when no such call is under way
Idle == [pc |-> "idle"]

\* last: the last call that changed the tree
Call(op, n, offset, length, data, err) ==
    [op |-> op, err |-> err]

Init ==
    /\ heap = <<ByteRange(0, RootLen, None, None, 1)>>
    /\ lists = << <<>> >>
    /\ last = Call("init", Root, 0, RootLen, None, "none")
    /\ spans = {}
    /\ perm = <<>>
    /\ scan = Idle

\* a call that raises without having touched the tree leaves the state as
\* it is (a stuttering step); MaxNodes bounds the nodes in the tree
Step(r, call) ==
    /\ r.s # st
    /\ Len(iterate(r.s, Root, 0, 0)) <= MaxNodes
    /\ LET c == Canon(r.s)
       IN  heap' = c.heap /\ lists' = c.lists
    /\ last' = call
    /\ UNCHANGED <<spans, perm, scan>>

AddSubrange ==
    \E n \in Nodes(st), offset \in Offsets, length \in Lengths, data \in Data :
        LET r == add_subrange(st, n, offset, length, data)
        IN  Step(r, Call("add_subrange", n, offset, length, data, r.err))

InsertSubrange ==
    \E n \in Nodes(st), offset \in Offsets, length \in Lengths, data \in Data :
        LET r == insert_subrange(st, n, offset, length, data)
        IN  Step(r, Call("insert_subrange", n, offset, length, data, r.err))

ScanGap ==
    \E n \in Nodes(st) :
        LET r == scan_gap(st, n)
        IN  Step(r, Call("scan_gap", n, 0, 0, None, r.err))

Next == AddSubrange \/ InsertSubrange \/ ScanGap

Spec == Init /\ [][Next]_vars


\* ---- insertion order (add_subrange on a childless root, span by span) ----
Span(offset, length) == [offset |-> offset, length |-> length]

InBoundsSpans ==
    {sp \in [offset : 0 .. RootLen, length : 0 .. RootLen] :
        sp.offset + sp.length <= RootLen}

\* two spans are disjoint when one lies entirely before the other
Disjoint(a, b) ==
    a.offset + a.length <= b.offset \/ b.offset + b.length <= a.offset

Orders(S) ==
    {p \in [1 .. Cardinality(S) -> S] : \A i, j \in 1 .. Cardinality(S) : p[i] = p[j] => i = j}

InitPerm ==
    /\ heap = <<ByteRange(0, RootLen, None, None, 1)>>
    /\ lists = << <<>> >>
    /\ last = Call("init", Root, 0, RootLen, None, "none")
    /\ spans \in {S \in SUBSET InBoundsSpans :
                    /\ Cardinality(S) <= MaxSpans
                    /\ \A a, b \in S : a # b => Disjoint(a, b)}
    /\ perm \in Orders(spans)
    /\ scan = Idle

AddNext ==
    /\ perm # <<>>
    /\ \E data \in Data :
         LET r == add_subrange(st, Root, Head(perm).offset, Head(perm).length, data)
         IN  /\ heap' = r.s.heap
             /\ lists' = r.s.lists
             /\ last' = Call("add_subrange", Root, Head(perm).offset,
                             Head(perm).length, data, r.err)
    /\ perm' = Tail(perm)
    /\ UNCHANGED <<spans, scan>>

NextPerm == AddNext

SpecPerm == InitPerm /\ [][NextPerm]_vars

\* ---- properties ----
\* two ranges share at least one position
Shares(a, b) ==
    a.start < a.stop /\ b.start < b.stop /\ a.start < b.stop /\ b.start < a.stop

Child(s, n, i) == s.heap[subranges(s, n)[i]]

NumChildren(s, n) == Len(subranges(s, n))

\* C1: in every reachable state every node's subranges list is strictly
\* ascending by start and no two children of one node overlap.
C1_StrictlySorted ==
    \A n \in Nodes(st) : \A i, j \in 1 .. NumChildren(st, n) :
        i < j => /\ Child(st, n, i).start < Child(st, n, j).start
                 /\ ~Shares(Child(st, n, i), Child(st, n, j))

\* C2: every child c of every node p has 0 <= c.start and
\* c.stop <= length(p), and add_subrange on p raises the bounds error
\* whenever offset < 0, length < 0 or offset + length > length(p).
C2_ChildWithinLength ==
    \A p \in Nodes(st) :
        /\ \A i \in 1 .. NumChildren(st, p) :
              /\ 0 <= Child(st, p, i).start
              /\ Child(st, p, i).stop <= Range_len(heap[p])
        /\ \A offset \in Offsets, length \in Lengths, data \in Data :
              (offset < 0 \/ length < 0 \/ offset + length > Range_len(heap[p]))
              => add_subrange(st, p, offset, length, data).err = "bounds"

\* C3: in every reachable state, for every node and every span of positive
\* length that passes the bounds test (so every span inside [0, length))
\* and shares a position with an existing child, add_subrange raises the
\* overlap error.
C3_OverlapRaises ==
    \A n \in Nodes(st), offset \in Offsets, length \in Lengths, data \in Data :
        ( /\ offset >= 0 /\ length > 0 /\ offset + length <= heap[n].stop
          /\ \E i \in 1 .. NumChildren(st, n) :
                Shares(Range(offset, offset + length), Child(st, n, i)) )
        => add_subrange(st, n, offset, length, data).err = "overlap"

\* a node on which one overlapping span is refused by the equal-start probe
\* and another by the final neighbour check
C3_Witness ==
    \E n \in Nodes(st) :
        \A b \in {"probe", "neighbour"} :
            \E offset \in Offsets, length \in Lengths :
                /\ offset >= 0 /\ length > 0 /\ offset + length <= heap[n].stop
                /\ \E i \in 1 .. NumChildren(st, n) :
                      Shares(Range(offset, offset + length), Child(st, n, i))
                /\ add_subrange(st, n, offset, length, 1).branch = b
                /\ add_subrange(st, n, offset, length, 1).err = "overlap"

\* the spans of the root's children, in list order
RootSpans ==
    [i \in 1 .. NumChildren(st, Root) |->
        Span(Child(st, Root, i).start, Range_len(Child(st, Root, i)))]

\* C4: adding pairwise-disjoint in-bounds spans (length >= 0) to a
\* childless node succeeds on every call, in whatever order they come, and
\* the resulting list is the spans sorted ascending by start.
C4_OrderIndependent ==
    /\ last.op = "add_subrange" => last.err = "none"
    /\ perm = <<>> =>
          /\ Len(RootSpans) = Cardinality(spans)
          /\ {RootSpans[i] : i \in 1 .. Len(RootSpans)} = spans
          /\ \A i, j \in 1 .. Len(RootSpans) :
                i < j => \/ RootSpans[i].offset < RootSpans[j].offset
                         \/ /\ RootSpans[i].offset = RootSpans[j].offset
                            /\ RootSpans[i].length < RootSpans[j].length

\* C5: a call to insert_subrange that raises leaves the tree exactly as it
\* was before the call.
C5_InsertAllOrNothing ==
    \A n \in Nodes(st), offset \in Offsets, length \in Lengths, data \in Data :
        LET r == insert_subrange(st, n, offset, length, data)
        IN  r.err # "none" => r.s = st

\* C6: add_subrange on success adds exactly one new childless node, with
\* the given span and data and this node as parent, to the list of the node
\* it is called on, and changes no other node and no other list; when it
\* raises it changes nothing.
C6_AddFrame ==
    \A n \in Nodes(st), offset \in Offsets, length \in Lengths, data \in Data :
        LET r == add_subrange(st, n, offset, length, data)
            id == Len(heap) + 1
            own == heap[n].subranges
        IN  IF r.err = "none"
            THEN /\ r.ret = id
                 /\ Len(r.s.heap) = id
                 /\ \A i \in 1 .. Len(heap) : r.s.heap[i] = heap[i]
                 /\ r.s.heap[id].start = offset
                 /\ r.s.heap[id].stop = offset + length
                 /\ r.s.heap[id].parent = n
                 /\ r.s.heap[id].data = data
                 /\ r.s.heap[id].subranges > Len(lists)
                 /\ r.s.lists[r.s.heap[id].subranges] = <<>>
                 /\ \A j \in 1 .. Len(lists) : j # own => r.s.lists[j] = lists[j]
                 /\ Len(r.s.lists[own]) = Len(lists[own]) + 1
                 /\ ListRemove(r.s.lists[own], id) = lists[own]
            ELSE r.s = st

\* a state made by add_subrange in which a further call would put a new
\* child between two existing ones and another call would raise
C6_Witness ==
    /\ last.op = "add_subrange"
    /\ \E n \in Nodes(st) \ {Root}, offset \in Offsets, length \in Lengths :
          /\ add_subrange(st, n, offset, length, 1).branch = "between"
          /\ add_subrange(st, n, offset, length, 1).err = "none"
    /\ \E n \in Nodes(st), offset \in Offsets, length \in Lengths :
          add_subrange(st, n, offset, length, 1).err = "overlap"

\* the spans of the leaves under n, relative to the start of n
LeafSpans(s, n) ==
    LET v == iterate_leaves(s, n, 0, 0)
    IN  {<<v[i].start, v[i].stop>> : i \in 1 .. Len(v)}

\* C7: on a node that its children partition (does_partition() is true), a
\* successful insert_subrange, whether it encloses no, one, several or all
\* children, leaves does_partition() true and leaves the set of leaf spans
\* as it was, except for the new empty leaf when no child was enclosed.
C7_InsertKeepsPartition ==
    \A n \in Nodes(st), offset \in Offsets, length \in Lengths, data \in Data :
        LET r == insert_subrange(st, n, offset, length, data)
        IN  (r.err = "none" /\ NumChildren(st, n) > 0 /\ does_partition(st, n)) =>
               /\ does_partition(r.s, n)
               /\ LeafSpans(r.s, n) =
                     IF r.moved = <<>>
                     THEN LeafSpans(st, n) \cup {<<offset, offset + length>>}
                     ELSE LeafSpans(st, n)

\* C8: for every node of the tree, abs_start() found by walking the parent
\* references is the absoluteStart that iterate from the root hands to the
\* callback for that node (the sum of start along the subranges path), and
\* absoluteStop = abs_end() = abs_start() + length.
C8_AbsStartIsPathSum ==
    LET v == iterate(st, Root, 0, 0)
    IN  \A i \in 1 .. Len(v) :
           /\ abs_start(st, v[i].node) = v[i].start
           /\ abs_end(st, v[i].node) = v[i].stop
           /\ v[i].stop = abs_start(st, v[i].node) + Range_len(heap[v[i].node])

\* insert_subrange has regrouped a child that has children of its own: a
\* node of the tree, away from position 0, refers to a parent object that
\* is no longer in the tree
C8_Witness ==
    /\ last.op = "insert_subrange"
    /\ last.err = "none"
    /\ \E c \in Nodes(st) :
          /\ heap[c].parent # None
          /\ heap[c].parent \notin Nodes(st)
          /\ abs_start(st, c) > heap[c].start

\* the children of n tile [0, length) and each partitions its own span
Tiles(s, n) ==
    LET k == NumChildren(s, n)
    IN  \/ k = 0
        \/ /\ Child(s, n, 1).start = 0
           /\ \A i \in 1 .. (k - 1) : Child(s, n, i + 1).start = Child(s, n, i).stop
           /\ Child(s, n, k).stop = s.heap[n].stop - s.heap[n].start
           /\ \A i \in 1 .. k : does_partition(s, subranges(s, n)[i])

\* C9: does_partition() is true exactly when the node has no children, or
\* the first child starts at 0, each child starts where the previous one
\* stops, the last child stops at the node's length, and every child
\* partitions its own span.
C9_PartitionIffTiles ==
    \A n \in Nodes(st) : does_partition(st, n) <=> Tiles(st, n)

\* a node away from position 0 that its two or more children partition,
\* next to a node with children that is not partitioned
C9_Witness ==
    /\ \E n \in Nodes(st) :
          /\ heap[n].start > 0
          /\ NumChildren(st, n) >= 2
          /\ does_partition(st, n)
    /\ \E n \in Nodes(st) : NumChildren(st, n) >= 1 /\ ~does_partition(st, n)

\* the positions of [0, length) of n that no child covers
Uncovered(s, n) ==
    {x \in 0 .. (Range_len(s.heap[n]) - 1) :
        \A i \in 1 .. NumChildren(s, n) :
            ~(Child(s, n, i).start <= x /\ x < Child(s, n, i).stop)}

\* the maximal uncovered intervals, as <<start, stop>>
Gaps(s, n) ==
    LET U == Uncovered(s, n)
    IN  {g \in (0 .. RootLen) \X (0 .. RootLen) :
            /\ g[1] < g[2]
            /\ \A x \in g[1] .. (g[2] - 1) : x \in U
            /\ (g[1] - 1) \notin U
            /\ g[2] \notin U}

RECURSIVE Ascending(_)
Ascending(G) ==
    IF G = {} THEN <<>>
    ELSE LET g == CHOOSE x \in G : \A y \in G : x[1] <= y[1]
         IN  <<g>> \o Ascending(G \ {g})

\* C10: scan_gap on a node with children calls the callback exactly once
\* for each maximal uncovered interval of [0, length), in ascending order
\* with its exact (start, stop), and inserts for each one childless child
\* that covers it and carries the callback's return value.
C10_ScanGapFillsGaps ==
    \A n \in Nodes(st) :
        NumChildren(st, n) > 0 =>
            LET r == scan_gap(st, n)
                new == {c \in 1 .. Len(r.s.heap) : c > Len(heap)}
            IN  /\ r.err = "none"
                /\ r.calls = Ascending(Gaps(st, n))
                /\ Cardinality(new) = Len(r.calls)
                /\ \A i \in 1 .. Len(r.calls) :
                      \E c \in new :
                          /\ r.s.heap[c].start = r.calls[i][1]
                          /\ r.s.heap[c].stop = r.calls[i][2]
                          /\ r.s.heap[c].parent = n
                          /\ r.s.heap[c].data = callback(r.calls[i][1], r.calls[i][2])
                          /\ r.s.lists[r.s.heap[c].subranges] = <<>>
                /\ {subranges(r.s, n)[i] : i \in 1 .. NumChildren(r.s, n)} =
                      {subranges(st, n)[i] : i \in 1 .. NumChildren(st, n)} \cup new

\* C11: for a node with at least one child, after scan_gap returns,
\* does_partition() on that node is true exactly when every child that was
\* there before the call partitions its own span, and scan_gap changes no
\* node and no list that existed before the call except the node's own list,
\* which keeps all its former children; on a childless node it makes no
\* callback and changes nothing.
C11_ScanGapCompletes ==
    \A n \in Nodes(st) :
        LET r == scan_gap(st, n)
            old == subranges(st, n)
            own == heap[n].subranges
        IN  IF NumChildren(st, n) = 0
            THEN r.calls = <<>> /\ r.s = st
            ELSE r.err = "none" =>
                   /\ does_partition(r.s, n) <=>
                         \A i \in 1 .. Len(old) : does_partition(st, old[i])
                   /\ \A i \in 1 .. Len(heap) : r.s.heap[i] = heap[i]
                   /\ \A j \in 1 .. Len(lists) : j # own => r.s.lists[j] = lists[j]
                   /\ \A i \in 1 .. Len(old) :
                         old[i] \in {r.s.lists[own][k] : k \in 1 .. Len(r.s.lists[own])}

\* ---- bytes ----
\* The root is built without data or with a byte buffer (a Bytes object,
\* written Buffer) whose content is BufferBytes; the data of the other nodes
\* are annotations.  range(start,
\* stop) of the buffer is the slice of the positions start .. stop - 1 that
\* the buffer has.
Buffer == 2

BufferBytes == [i \in 1 .. RootLen |-> 10 + i]

RootData == {None, Buffer}

Bytes_range(buf, start, stop) ==
    LET lo == IF start < 0 THEN 0 ELSE start
        hi == IF stop > Len(buf) THEN Len(buf) ELSE stop
    IN  IF hi <= lo THEN <<>> ELSE [i \in 1 .. (hi - lo) |-> buf[lo + i]]

\* an optional argument is <<>> when it is not given and <<k>> when it is
abs_range_unshifted(s, n, start, stop) ==
    LET start0 == IF start = <<>> THEN 0 ELSE start[1]
        stop0 == IF stop = <<>> THEN Range_len(s.heap[n]) ELSE stop[1]
    IN  <<start0 + abs_start(s, n), stop0>>

abs_range(s, n, start, stop) ==
    LET start0 == IF start = <<>> THEN 0 ELSE start[1]
        stop0 == IF stop = <<>> THEN Range_len(s.heap[n]) ELSE stop[1]
    IN  <<start0 + abs_start(s, n), stop0 + abs_start(s, n)>>

RECURSIVE RootOf(_, _)
RootOf(s, br) ==
    IF s.heap[br].parent # None THEN RootOf(s, s.heap[br].parent) ELSE br

\* bytes: absent is TRUE when the call returns None; err is "assert" when
\* the root's data is not a Bytes object
bytes(s, n, start, stop) ==
    LET br == RootOf(s, n)
        ar == abs_range(s, n, start, stop)
    IN  IF s.heap[br].data = None
        THEN [err |-> "none", absent |-> TRUE, ret |-> <<>>]
        ELSE IF s.heap[br].data # Buffer
        THEN [err |-> "assert", absent |-> FALSE, ret |-> <<>>]
        ELSE [err |-> "none", absent |-> FALSE,
              ret |-> Bytes_range(BufferBytes, ar[1], ar[2])]

\* the root is constructed with or without data
InitBytes ==
    /\ \E data \in RootData : heap = <<ByteRange(0, RootLen, data, None, 1)>>
    /\ lists = << <<>> >>
    /\ last = Call("init", Root, 0, RootLen, None, "none")
    /\ spans = {}
    /\ perm = <<>>
    /\ scan = Idle

SpecBytes == InitBytes /\ [][Next]_vars

\* C12 (as claimed): bytes() with no arguments returns the absent value when
\* no node on the path from the node to the root has data attached, and in
\* every other case returns the root buffer's range(abs_start(), abs_end()).
C12_AbsentIffNoDataOnPath ==
    \A n \in Nodes(st) :
        LET r == bytes(st, n, <<>>, <<>>)
            path == Chain(st, n)
        IN  IF \A i \in 1 .. Len(path) : heap[path[i]].data = None
            THEN r.err = "none" /\ r.absent
            ELSE /\ r.err = "none"
                 /\ ~r.absent
                 /\ r.ret = Bytes_range(BufferBytes, abs_start(st, n), abs_end(st, n))

\* C12 (amended): bytes() with no arguments on any node of the tree returns
\* the absent value exactly when the root has no data, whatever data the
\* other nodes carry; when the root's data is a byte buffer it returns that
\* buffer's range(abs_start(), abs_end()) for the node.
C12_AbsentIffRootHasNoData ==
    \A n \in Nodes(st) :
        LET r == bytes(st, n, <<>>, <<>>)
        IN  /\ r.absent <=> heap[Root].data = None
            /\ heap[Root].data = None => r.err = "none"
            /\ heap[Root].data = Buffer =>
                  /\ r.err = "none"
                  /\ r.ret = Bytes_range(BufferBytes, abs_start(st, n), abs_end(st, n))

\* the root carries a buffer and a node two levels down, away from position
\* 0 of the buffer, yields a non-empty slice that is not a prefix
C12_Witness ==
    /\ heap[Root].data = Buffer
    /\ \E n \in Nodes(st) :
          /\ heap[n].parent # None
          /\ heap[heap[n].parent].parent # None
          /\ abs_start(st, n) > heap[n].start
          /\ bytes(st, n, <<>>, <<>>).ret # <<>>
          /\ bytes(st, n, <<>>, <<>>).ret = <<BufferBytes[abs_start(st, n) + 1]>>

\* C13: in every reachable state, for every node and every span
\* [offset, offset + length) with length >= 0, insert_subrange raises the
\* spans-boundary error whenever some child of the node is neither entirely
\* before the span, nor entirely after it, nor contained in it (it straddles
\* the start, straddles the stop, or strictly encloses the span).
C13_SpanningChildRaises ==
    \A n \in Nodes(st), offset \in Offsets, length \in Lengths, data \in Data :
        ( /\ length >= 0
          /\ \E i \in 1 .. NumChildren(st, n) :
                LET c == Child(st, n, i)
                IN  /\ ~(c.stop <= offset)
                    /\ ~(c.start >= offset + length)
                    /\ ~(offset <= c.start /\ c.stop <= offset + length) )
        => insert_subrange(st, n, offset, length, data).err = "spans"

\* a node with two children on which one span is refused for a child that
\* straddles its start, another for a child that straddles its stop and a
\* third for a child that strictly encloses it, the scan having passed over
\* a child before reaching the offending one
C13_Witness ==
    \E n \in Nodes(st) :
        /\ NumChildren(st, n) >= 2
        /\ \E o1, o2, o3 \in Offsets, l1, l2, l3 \in Lengths, i1, i2 \in 1 .. NumChildren(st, n) :
              /\ l1 > 0 /\ l2 > 0 /\ l3 >= 0
              /\ i1 >= 2
              /\ Child(st, n, i1).start < o1 /\ o1 < Child(st, n, i1).stop
              /\ Child(st, n, i1).stop < o1 + l1
              /\ o2 < Child(st, n, i2).start /\ Child(st, n, i2).start < o2 + l2
              /\ o2 + l2 < Child(st, n, i2).stop
              /\ Child(st, n, i1).start < o3 /\ o3 + l3 < Child(st, n, i1).stop
              /\ insert_subrange(st, n, o1, l1, 1).err = "spans"
              /\ insert_subrange(st, n, o2, l2, 1).err = "spans"
              /\ insert_subrange(st, n, o3, l3, 1).err = "spans"

\* ---- the outcome of insert_subrange ----
\* a child lies within [offset, offset + length)
Contained(c, offset, length) == offset <= c.start /\ c.stop <= offset + length

\* a child lies within the span and is neither entirely before nor entirely
\* after it: every contained child except one of length zero that sits at
\* the start or at the stop of the span
Enclosed(c, offset, length) ==
    /\ Contained(c, offset, length)
    /\ c.stop > offset
    /\ c.start < offset + length

\* the members of list, in order, whose node is (is not) within the span
RECURSIVE Inside(_, _, _, _)
Inside(s, list, offset, length) ==
    IF list = <<>> THEN <<>>
    ELSE IF Contained(s.heap[Head(list)], offset, length)
    THEN <<Head(list)>> \o Inside(s, Tail(list), offset, length)
    ELSE Inside(s, Tail(list), offset, length)

RECURSIVE Outside(_, _, _, _)
Outside(s, list, offset, length) ==
    IF list = <<>> THEN <<>>
    ELSE IF Contained(s.heap[Head(list)], offset, length)
    THEN Outside(s, Tail(list), offset, length)
    ELSE <<Head(list)>> \o Outside(s, Tail(list), offset, length)

RECURSIVE Grouped(_, _, _, _)
Grouped(s, list, offset, length) ==
    IF list = <<>> THEN <<>>
    ELSE IF Enclosed(s.heap[Head(list)], offset, length)
    THEN <<Head(list)>> \o Grouped(s, Tail(list), offset, length)
    ELSE Grouped(s, Tail(list), offset, length)

RECURSIVE Kept(_, _, _, _)
Kept(s, list, offset, length) ==
    IF list = <<>> THEN <<>>
    ELSE IF Enclosed(s.heap[Head(list)], offset, length)
    THEN Kept(s, Tail(list), offset, length)
    ELSE <<Head(list)>> \o Kept(s, Tail(list), offset, length)

\* after a successful insert_subrange(offset, length, data) on p that
\* returned g: the list of p is kept plus g, ascending by start; g has the
\* span and the data; the children of g are the nodes of moved, in order,
\* each with start and stop reduced by offset, the same data and the same
\* list of children; the kept children and every list are as they were
Regrouped(r, p, offset, length, data, kept, moved) ==
    LET g == r.ret
        now == subranges(r.s, p)
        under == subranges(r.s, g)
    IN  /\ ListRemove(now, g) = kept
        /\ Len(now) = Len(kept) + 1
        /\ \A i, j \in 1 .. Len(now) :
              i < j => r.s.heap[now[i]].start <= r.s.heap[now[j]].start
        /\ r.s.heap[g].start = offset
        /\ r.s.heap[g].stop = offset + length
        /\ r.s.heap[g].data = data
        /\ Len(under) = Len(moved)
        /\ \A i \in 1 .. Len(moved) :
              /\ r.s.heap[under[i]].start = heap[moved[i]].start - offset
              /\ r.s.heap[under[i]].stop = heap[moved[i]].stop - offset
              /\ r.s.heap[under[i]].data = heap[moved[i]].data
              /\ subranges(r.s, under[i]) = subranges(st, moved[i])
        /\ \A i \in 1 .. Len(kept) : r.s.heap[kept[i]] = heap[kept[i]]
        /\ \A j \in 1 .. Len(lists) : j # heap[p].subranges => r.s.lists[j] = lists[j]

\* C14 (as claimed): after a successful insert_subrange(offset, length,
\* data) on p, the children of p are the former children not contained in
\* the span plus the new node g in sorted position, the children of g are
\* exactly the former children contained in the span, in the same order,
\* with start and stop reduced by offset and the same data and subranges,
\* and the children outside the span are unchanged.
C14_GroupsContained ==
    \A p \in Nodes(st), offset \in Offsets, length \in Lengths, data \in Data :
        LET r == insert_subrange(st, p, offset, length, data)
        IN  r.err = "none" =>
               Regrouped(r, p, offset, length, data,
                         Outside(st, subranges(st, p), offset, length),
                         Inside(st, subranges(st, p), offset, length))

\* C14 (amended): the same, with the children that go under g being those
\* contained in the span and neither entirely before nor entirely after it;
\* a child of length zero at the start or at the stop of the span stays a
\* child of p.
C14_GroupsEnclosed ==
    \A p \in Nodes(st), offset \in Offsets, length \in Lengths, data \in Data :
        LET r == insert_subrange(st, p, offset, length, data)
        IN  r.err = "none" =>
               Regrouped(r, p, offset, length, data,
                         Kept(st, subranges(st, p), offset, length),
                         Grouped(st, subranges(st, p), offset, length))

\* a node of which a successful insert_subrange, at an offset above 0,
\* groups a child that has a child of its own and leaves another child
\* where it is
C14_Witness ==
    \E p \in Nodes(st), offset \in Offsets, length \in Lengths :
        LET r == insert_subrange(st, p, offset, length, 1)
            moved == Grouped(st, subranges(st, p), offset, length)
        IN  /\ r.err = "none"
            /\ offset > 0
            /\ \E i \in 1 .. Len(moved) : NumChildren(st, moved[i]) > 0
            /\ Len(Kept(st, subranges(st, p), offset, length)) >= 1

\* C15: in every reachable state, also after insert_subrange has regrouped
\* children that have children of their own, every node c in the subranges
\* list of a node p of the tree has c.parent = p.
C15_ParentOwnsChild ==
    \A p \in Nodes(st) : \A i \in 1 .. NumChildren(st, p) :
        Child(st, p, i).parent = p

\* ---- traversal order ----
\* the nodes that the subranges lists lead to from the nodes of S
RECURSIVE Reachable(_, _)
Reachable(s, S) ==
    LET T == S \cup UNION {{subranges(s, p)[i] : i \in 1 .. NumChildren(s, p)} : p \in S}
    IN  IF T = S THEN S ELSE Reachable(s, T)

\* in a sequence v of visits, the visits that belong to the subtree of the
\* visit at j: those after j up to the next visit at the level of j or above
SubtreeEnd(v, j) ==
    IF \E k \in (j + 1) .. Len(v) : v[k].level <= v[j].level
    THEN (CHOOSE k \in (j + 1) .. Len(v) :
             /\ v[k].level <= v[j].level
             /\ \A m \in (j + 1) .. (k - 1) : v[m].level > v[j].level) - 1
    ELSE Len(v)

RECURSIVE NodesAtLevel(_, _, _, _)
NodesAtLevel(v, from, to, level) ==
    IF from > to THEN <<>>
    ELSE IF v[from].level = level
    THEN <<v[from].node>> \o NodesAtLevel(v, from + 1, to, level)
    ELSE NodesAtLevel(v, from + 1, to, level)

RECURSIVE WithoutNone(_)
WithoutNone(seq) ==
    IF seq = <<>> THEN <<>>
    ELSE IF Head(seq) = None THEN WithoutNone(Tail(seq))
    ELSE <<Head(seq)>> \o WithoutNone(Tail(seq))

RECURSIVE LeafVisits(_, _)
LeafVisits(s, v) ==
    IF v = <<>> THEN <<>>
    ELSE IF NumChildren(s, Head(v).node) = 0
    THEN <<Head(v)>> \o LeafVisits(s, Tail(v))
    ELSE LeafVisits(s, Tail(v))

\* C16: iterate on the root calls the callback on every node that the
\* subranges lists reach, once each, in depth-first pre-order with the
\* children in list order (the visits right below a visit are its node's
\* children, in order), with level the depth of the node (root 0), and
\* returns the callback's results in the order of the visits without the
\* None ones; iterate_leaves calls the callback on the childless nodes only,
\* once each, in that same order, and returns one result per leaf, None
\* results included.
C16_PreOrderTraversal ==
    LET v == iterate(st, Root, 0, 0)
        lv == iterate_leaves(st, Root, 0, 0)
        res == iterate_results(st, Root, 0, 0)
        lres == iterate_leaves_results(st, Root, 0, 0)
        result(c) == visit(st, c.node, c.start, c.stop, c.level)
    IN  /\ {v[i].node : i \in 1 .. Len(v)} = Reachable(st, {Root})
        /\ \A i, j \in 1 .. Len(v) : v[i].node = v[j].node => i = j
        /\ v[1].node = Root /\ v[1].level = 0
        /\ \A j \in 1 .. Len(v) :
              NodesAtLevel(v, j + 1, SubtreeEnd(v, j), v[j].level + 1)
                 = subranges(st, v[j].node)
        /\ \A j \in 1 .. (Len(v) - 1) : v[j + 1].level <= v[j].level + 1
        /\ \A j \in 2 .. Len(v) : v[j].level >= 1
        /\ res = WithoutNone([i \in 1 .. Len(v) |-> result(v[i])])
        /\ lv = LeafVisits(st, v)
        /\ Len(lres) = Len(lv)
        /\ lres = [i \in 1 .. Len(lv) |-> result(lv[i])]

\* a tree with a node at depth 2 and a node with two children, in which
\* iterate drops a None result and iterate_leaves returns a None result
\* beside another one
C16_Witness ==
    LET v == iterate(st, Root, 0, 0)
        res == iterate_results(st, Root, 0, 0)
        lres == iterate_leaves_results(st, Root, 0, 0)
    IN  /\ \E i \in 1 .. Len(v) : v[i].level = 2
        /\ \E n \in Nodes(st) : NumChildren(st, n) >= 2
        /\ Len(res) < Len(v)
        /\ \E i, j \in 1 .. Len(lres) : lres[i] = None /\ lres[j] # None

\* C17: when a successful insert_subrange regroups children, the children of
\* the new grouping node are the very node objects that were children of the
\* node before the call, so each of them is still a node of the tree.
C17_SameNodesRegrouped ==
    \A p \in Nodes(st), offset \in Offsets, length \in Lengths, data \in Data :
        LET r == insert_subrange(st, p, offset, length, data)
        IN  r.err = "none" =>
               /\ subranges(r.s, r.ret) = r.moved
               /\ \A i \in 1 .. Len(r.moved) : r.moved[i] \in Nodes(r.s)

\* ---- parent references ----
\* the object reached from n by following parent k times (None once the
\* references have run out)
RECURSIVE Ancestor(_, _, _)
Ancestor(s, n, k) ==
    IF k = 0 THEN n
    ELSE LET a == Ancestor(s, n, k - 1)
         IN  IF a = None THEN None ELSE s.heap[a].parent

\* C18: in every reachable state, following the parent references from any
\* node of the tree reaches the root after finitely many steps without
\* meeting an object twice; the root has start 0 and parent None and no
\* other node of the tree has parent None, so the walks of abs_start and
\* bytes end at that root.
C18_ParentChainEndsAtRoot ==
    /\ heap[Root].start = 0
    /\ heap[Root].parent = None
    /\ \A n \in Nodes(st) :
          /\ n # Root => heap[n].parent # None
          /\ \E k \in 0 .. (Len(heap) - 1) :
                /\ Ancestor(st, n, k) = Root
                /\ \A i \in 0 .. (k - 1) : Ancestor(st, n, i) # None
                /\ \A i, j \in 0 .. k :
                      i < j => Ancestor(st, n, i) # Ancestor(st, n, j)
          /\ RootOf(st, n) = Root

\* insert_subrange has regrouped a child that has a child: a node of the
\* tree reaches the root in two steps through an object that is no longer
\* in the tree, while its place in the tree is three levels down
C18_Witness ==
    LET v == iterate(st, Root, 0, 0)
    IN  \E i \in 1 .. Len(v) :
           /\ v[i].level = 3
           /\ Ancestor(st, v[i].node, 1) \notin Nodes(st)
           /\ Ancestor(st, v[i].node, 2) = Root

\* ---- scan_gap, one loop iteration at a time ----
\* MaxSteps caps the iterations of one call
MaxSteps == 2 * MaxNodes + 2

\* (a variant of the for statement that does not move on)
NextIndex_stay(i) == i

\* line 169: the for statement moves on to the next position of the list
NextIndex(i) == i + 1

\* lines 170-175: one iteration, on the range at position i
GapStep(s, n, i, current) ==
    LET sr == s.heap[subranges(s, n)[i]]
        gap == sr.start - current
        r == add_subrange(s, n, current, gap, callback(current, current + gap))
    IN  IF gap > 0
        THEN [s |-> r.s, err |-> r.err, called |-> 1,
              current |-> IF r.err = "none" THEN sr.stop ELSE current]
        ELSE [s |-> s, err |-> "none", called |-> 0, current |-> sr.stop]

\* lines 176-179: the gap behind the last range
GapTail(s, n, current) ==
    LET self == s.heap[n]
        gap == self.stop - (self.start + current)
        r == add_subrange(s, n, current, gap, callback(current, current + gap))
    IN  IF gap > 0
        THEN [s |-> r.s, err |-> r.err, called |-> 1]
        ELSE [s |-> s, err |-> "none", called |-> 0]

\* the children of n are strictly ascending by start and share no position
SiblingsInOrder(s, n) ==
    \A i, j \in 1 .. NumChildren(s, n) :
        i < j => /\ Child(s, n, i).start < Child(s, n, j).start
                 /\ ~Shares(Child(s, n, i), Child(s, n, j))

\* lines 166-168: scan_gap is called on a node that has children; n0 is the
\* number of children and s0 the store at the call
ScanBegin ==
    /\ scan.pc = "idle"
    /\ \E n \in Nodes(st) :
          /\ NumChildren(st, n) > 0
          /\ scan' = [pc |-> "loop", node |-> n, i |-> 1, current |-> 0,
                      ncalls |-> 0, steps |-> 0, err |-> "none",
                      n0 |-> NumChildren(st, n),
                      ok |-> SiblingsInOrder(st, n), s0 |-> st]
    /\ UNCHANGED <<heap, lists, last, spans, perm>>

ScanIter ==
    /\ scan.pc = "loop"
    /\ scan.i <= NumChildren(st, scan.node)
    /\ scan.steps < MaxSteps
    /\ LET g == GapStep(st, scan.node, scan.i, scan.current)
       IN  /\ heap' = g.s.heap
           /\ lists' = g.s.lists
           /\ scan' = [scan EXCEPT
                         !.pc = IF g.err = "none" THEN "loop" ELSE "raised",
                         !.err = g.err,
                         !.i = NextIndex(@),
                         !.current = g.current,
                         !.ncalls = @ + g.called,
                         !.steps = @ + 1]
    /\ UNCHANGED <<last, spans, perm>>

ScanTail ==
    /\ scan.pc = "loop"
    /\ scan.i > NumChildren(st, scan.node)
    /\ LET g == GapTail(st, scan.node, scan.current)
       IN  /\ heap' = g.s.heap
           /\ lists' = g.s.lists
           /\ scan' = [scan EXCEPT
                         !.pc = IF g.err = "none" THEN "done" ELSE "raised",
                         !.err = g.err,
                         !.ncalls = @ + g.called]
    /\ UNCHANGED <<last, spans, perm>>

\* the call is over; the tree goes on being used while it has at most
\* MaxNodes nodes
ScanReturn ==
    /\ scan.pc \in {"done", "raised"}
    /\ Len(iterate(st, Root, 0, 0)) <= MaxNodes
    /\ LET c == Canon(st)
       IN  heap' = c.heap /\ lists' = c.lists
    /\ last' = IF st = scan.s0 THEN last
               ELSE Call("scan_gap", scan.node, 0, 0, None, scan.err)
    /\ scan' = Idle
    /\ UNCHANGED <<spans, perm>>

AddIdle == scan.pc = "idle" /\ AddSubrange

InsertIdle == scan.pc = "idle" /\ InsertSubrange

NextScan ==
    AddIdle \/ InsertIdle \/ ScanBegin \/ ScanIter \/ ScanTail \/ ScanReturn

SpecScan == Init /\ [][NextScan]_vars

\* the widths right_idx - left_idx that the binary search of lines 41-49
\* goes through, the first one included
RECURSIVE SearchWidths(_, _, _, _, _)
SearchWidths(s, sr, newStart, left_idx, right_idx) ==
    <<right_idx - left_idx>> \o
    IF right_idx - left_idx > 1
    THEN LET mid_idx == (left_idx + right_idx) \div 2
             mid == s.heap[sr[mid_idx]].start
         IN  IF mid < newStart THEN SearchWidths(s, sr, newStart, mid_idx, right_idx)
             ELSE IF mid > newStart THEN SearchWidths(s, sr, newStart, left_idx, mid_idx)
             ELSE <<>>
    ELSE <<>>

\* C19: scan_gap terminates although the add_subrange calls in its loop
\* lengthen the list the loop runs over: called on a node with n children
\* that are strictly ascending and share no position, the loop makes at
\* most 2 * n iterations and the call at most n + 1 callbacks (at most n of
\* them in the loop), and it ends in the store, with the error and after
\* the number of callbacks that scan_gap gives; the binary search of
\* add_subrange ends on every children list, for every start looked for:
\* the width right_idx - left_idx shrinks with every iteration and stays
\* at least 1.
C19_ScanGapTerminates ==
    /\ (scan.pc # "idle" /\ scan.ok) =>
          /\ scan.steps <= 2 * scan.n0
          /\ scan.ncalls <= scan.n0 + (IF scan.pc = "loop" THEN 0 ELSE 1)
    /\ scan.pc \in {"done", "raised"} =>
          LET r == scan_gap(scan.s0, scan.node)
          IN  /\ r.s = st
              /\ r.err = scan.err
              /\ Len(r.calls) = scan.ncalls
    /\ \A n \in Nodes(st), newStart \in 0 .. RootLen :
          NumChildren(st, n) > 0 =>
             LET w == SearchWidths(st, subranges(st, n), newStart, 1, NumChildren(st, n))
             IN  /\ \A i \in 1 .. (Len(w) - 1) : w[i + 1] < w[i] /\ w[i + 1] >= 1
                 /\ Len(w) <= NumChildren(st, n)

\* a call has just ended after 2 * n iterations and n + 1 callbacks, a gap
\* having been filled in front of each child and behind the last, and the
\* binary search on the list it leaves halves the width down to 1
C19_Witness ==
    /\ scan.pc = "done"
    /\ scan.ok
    /\ scan.n0 >= 1
    /\ scan.steps = 2 * scan.n0
    /\ scan.ncalls = scan.n0 + 1
    /\ \E newStart \in 0 .. RootLen :
          Len(SearchWidths(st, subranges(st, scan.node), newStart, 1,
                           NumChildren(st, scan.node))) >= 2

====
